---- MODULE Spec2Model ----
(***************************************************************************)
(* A model of the OSRS price tracker: the GETracker client                 *)
(* (src/ge_tracker.py) and the OSRSPriceTracker widget (src/ui_tracker.py) *)
(* with its sqlite table `items`, its QListWidget `tracked_items` and the  *)
(* in-memory dict GETracker.items.                                         *)
(*                                                                         *)
(* The sqlite table is a sequence of rows in rowid order.  The AUTOINCREMENT *)
(* id itself is not kept: it is only ever used as "WHERE id = ?" on a row  *)
(* that was just selected, so a row's position identifies it exactly.      *)
(* A list entry keeps the numbers its text is formatted from (price and    *)
(* change) and its colour; the thousands separators are not modelled.      *)
(***************************************************************************)
EXTENDS Integers, Sequences, FiniteSets, TLC

\* ---- bounds of the model ----
MaxPrice == 2
MaxRows == 2
MaxList == 2

\* Python's None (and the falsy 0 that "if item_id:" treats alike).
None == 0

Prices == 1..MaxPrice

\* The remote catalog (GET /mapping): an array of {id, name}.
Catalog ==
  << [name |-> "Whip", id |-> 1], [name |-> "Bones", id |-> 2] >>

\* What the presentation layer can hand to addSelectedItem: the names of the
\* catalog and the empty text of onEnterPressed.
InputNames == {"Whip", "Bones", ""}

\* str.lower() on the names of the model.
Lower(s) ==
  CASE s = "Whip"  -> "whip"
    [] s = "Bones" -> "bones"
    [] OTHER       -> s

\* str(item_id): the key of an identifier in the JSON object of /latest.
Str(n) ==
  CASE n = 1 -> "1"
    [] n = 2 -> "2"
    [] OTHER -> "?"

DataKeys == {Str(Catalog[i].id) : i \in 1..Len(Catalog)}

Min(S) == CHOOSE x \in S : \A y \in S : x <= y
Max(S) == CHOOSE x \in S : \A y \in S : x >= y

EmptyDict == [n \in {} |-> None]

\* ---- the network ----
\* The outcome of one requests.get: "ok" is status 200, "http" any other
\* status, "neterr" a requests exception (connection refused, DNS, ...).
\* The snapshots of the model quote the buy price (high) at or above the sell
\* price (low), as the index does outside of momentary crossings.
PricePairs == {p \in [high : Prices, low : Prices] : p.low <= p.high}
Snapshots == UNION {[S -> PricePairs] : S \in SUBSET DataKeys}
LatestResponses ==
  {[kind |-> "neterr", data |-> EmptyDict], [kind |-> "http", data |-> EmptyDict]}
    \cup {[kind |-> "ok", data |-> d] : d \in Snapshots}
MappingResponses == {"ok", "http", "neterr"}
NoResponse == [kind |-> "none", data |-> EmptyDict]

VARIABLES
  db_items,       \* the rows of table `items`, in rowid order
  tracked_items,  \* the entries of the QListWidget, top to bottom
  ge_items,       \* GETracker.items: name -> identifier
  all_items,      \* OSRSPriceTracker.all_items: name -> identifier
  alive,          \* the process is running
  running,        \* the handlers the GUI thread is inside of (SpecLoop)
  lastOp          \* the last handler call: its input and what it printed

vars == <<db_items, tracked_items, ge_items, all_items, alive, running, lastOp>>

\* ---- GETracker ----

\* GETracker.get_item_id on a mapping response that did not raise.
get_item_id(item_name, resp) ==
  IF resp = "ok"
  THEN LET hits == {i \in 1..Len(Catalog) :
                      Lower(Catalog[i].name) = Lower(item_name)}
       IN IF hits = {} THEN None ELSE Catalog[Min(hits)].id
  ELSE None

\* GETracker.fetch_prices: [raised, prices, out].  With no items there is no
\* request at all.
fetch_prices(items, resp) ==
  IF DOMAIN items = {}
  THEN [raised |-> FALSE, prices |-> EmptyDict, out |-> {<<"no_items", "">>}]
  ELSE IF resp.kind = "neterr"
  THEN [raised |-> TRUE, prices |-> EmptyDict, out |-> {}]
  ELSE IF resp.kind = "ok"
  THEN LET found == {n \in DOMAIN items : Str(items[n]) \in DOMAIN resp.data}
       IN [raised |-> FALSE,
           prices |-> [n \in found |-> resp.data[Str(items[n])]],
           out    |-> {<<"no_data", n>> : n \in (DOMAIN items) \ found}]
  ELSE [raised |-> FALSE, prices |-> EmptyDict, out |-> {<<"fetch_failed", "">>}]

\* ---- OSRSPriceTracker ----

\* fetch_all_items: a dict comprehension (a later duplicate name wins); any
\* failure, an exception included, gives {}.
fetch_all_items(resp) ==
  IF resp = "ok"
  THEN [n \in {Catalog[i].name : i \in 1..Len(Catalog)} |->
          Catalog[Max({i \in 1..Len(Catalog) : Catalog[i].name = n})].id]
  ELSE EmptyDict

\* dict.get(item_name)
DictGet(d, k) == IF k \in DOMAIN d THEN d[k] ELSE None

\* d[k] = v
DictSet(d, k, v) == [n \in (DOMAIN d) \cup {k} |-> IF n = k THEN v ELSE d[n]]

\* del d[k]
DictDel(d, k) == [n \in (DOMAIN d) \ {k} |-> d[n]]

updateItemColor(high_change, low_change) ==
  IF high_change > 0 /\ low_change > 0 THEN "green"
  ELSE IF high_change < 0 /\ low_change < 0 THEN "red"
  ELSE "amber"

\* The QListWidgetItem addItemToList and updateItemInList build.
ListEntry(item_name, high_price, low_price, last_high_price, last_low_price) ==
  [name        |-> item_name,
   high        |-> high_price,
   low         |-> low_price,
   high_change |-> high_price - last_high_price,
   low_change  |-> low_price - last_low_price,
   color       |-> updateItemColor(high_price - last_high_price,
                                   low_price - last_low_price)]

addItemToList(list, item_name, high_price, low_price, last_high, last_low) ==
  Append(list, ListEntry(item_name, high_price, low_price, last_high, last_low))

\* The first entry of that name is rewritten ("break"); no entry, no change.
updateItemInList(list, item_name, high_price, low_price, last_high, last_low) ==
  LET hits == {i \in 1..Len(list) : list[i].name = item_name}
  IN IF hits = {} THEN list
     ELSE [list EXCEPT ![Min(hits)] =
             ListEntry(item_name, high_price, low_price, last_high, last_low)]

Row(item_name, high_price, low_price, last_high, last_low) ==
  [name |-> item_name, high_price |-> high_price, low_price |-> low_price,
   last_high_price |-> last_high, last_low_price |-> last_low]

\* A handler call as lastOp records it: the handler, the name it was about,
\* the response its fetch_prices got, how it ended, what it printed, and
\* whether the call right before it was the same handler with the same
\* response.
Op(op, name, resp, result, out) ==
  [op |-> op, name |-> name, resp |-> resp, result |-> result, out |-> out,
   repeat |-> (lastOp.op = op /\ lastOp.resp = resp /\ resp.kind = "ok")]

\* loadItems: every row becomes a list entry, then its name is resolved with
\* one request of its own (mresps[i]); a request that raises ends __init__.
RECURSIVE LoadRows(_, _, _, _, _)
LoadRows(rows, mresps, list, items, i) ==
  IF i > Len(rows)
  THEN [raised |-> FALSE, list |-> list, items |-> items]
  ELSE LET r  == rows[i]
           lh == IF r.last_high_price # None THEN r.last_high_price
                 ELSE r.high_price
           ll == IF r.last_low_price # None THEN r.last_low_price
                 ELSE r.low_price
           list2 == addItemToList(list, r.name, r.high_price, r.low_price, lh, ll)
       IN IF mresps[i] = "neterr"
          THEN [raised |-> TRUE, list |-> list2, items |-> items]
          ELSE LET item_id == get_item_id(r.name, mresps[i])
               IN LoadRows(rows, mresps, list2,
                           IF item_id # None THEN DictSet(items, r.name, item_id)
                           ELSE items,
                           i + 1)

loadItems(rows, mresps) == LoadRows(rows, mresps, << >>, EmptyDict, 1)

\* RefreshRows with a slip: the UPDATE runs for every row, a row without
\* prices in the snapshot taking its own current prices as the new ones.
RECURSIVE RefreshRowsUpdatingAll(_, _, _, _)
RefreshRowsUpdatingAll(rows, list, prices, i) ==
  IF i > Len(rows)
  THEN <<rows, list>>
  ELSE LET r == rows[i]
           p == IF r.name \in DOMAIN prices THEN prices[r.name]
                ELSE [high |-> r.high_price, low |-> r.low_price]
       IN RefreshRowsUpdatingAll(
            [rows EXCEPT ![i] =
               Row(r.name, p.high, p.low, r.high_price, r.low_price)],
            updateItemInList(list, r.name, p.high, p.low,
                             r.high_price, r.low_price),
            prices, i + 1)

\* RefreshRows with a slip: the UPDATE leaves last_high_price and
\* last_low_price as they are.
RECURSIVE RefreshRowsKeepingLast(_, _, _, _)
RefreshRowsKeepingLast(rows, list, prices, i) ==
  IF i > Len(rows)
  THEN <<rows, list>>
  ELSE IF rows[i].name \in DOMAIN prices
  THEN LET r == rows[i]
           p == prices[r.name]
       IN RefreshRowsKeepingLast(
            [rows EXCEPT ![i] =
               Row(r.name, p.high, p.low, r.last_high_price, r.last_low_price)],
            updateItemInList(list, r.name, p.high, p.low,
                             r.last_high_price, r.last_low_price),
            prices, i + 1)
  ELSE RefreshRowsKeepingLast(rows, list, prices, i + 1)

\* The loop of refreshPrices over the rows selected before it: a row whose
\* name is in prices gets the new prices, its old ones become last_*, and the
\* list is told.  <<rows, list>> after row i and the rows behind it.
RECURSIVE RefreshRows(_, _, _, _)
RefreshRows(rows, list, prices, i) ==
  IF i > Len(rows)
  THEN <<rows, list>>
  ELSE IF rows[i].name \in DOMAIN prices
  THEN LET r == rows[i]
           p == prices[r.name]
       IN RefreshRows(
            [rows EXCEPT ![i] =
               Row(r.name, p.high, p.low, r.high_price, r.low_price)],
            updateItemInList(list, r.name, p.high, p.low,
                             r.high_price, r.low_price),
            prices, i + 1)
  ELSE RefreshRows(rows, list, prices, i + 1)

\* DELETE FROM items WHERE name = ?
DeleteByName(rows, item_name) == SelectSeq(rows, LAMBDA r : r.name # item_name)

\* InsertOrReplace with a slip: the statement names no last_* column, which
\* stay NULL.
InsertWithoutLast(rows, row) ==
  Append(rows, [row EXCEPT !.last_high_price = None, !.last_low_price = None])

\* INSERT OR REPLACE INTO items (name, ...): the table has no UNIQUE
\* constraint on name and the statement gives no id, so nothing conflicts and
\* the row is appended.
InsertOrReplace(rows, row) == Append(rows, row)

\* QListWidget.takeItem(row)
TakeItem(list, i) == [j \in 1..(Len(list) - 1) |-> IF j < i THEN list[j] ELSE list[j + 1]]

\* An exception leaves the slot.  PyQt5 from 5.5 on aborts the process
\* (qFatal); older builds print the traceback and return to the event loop.
\* mem is <<tracked_items, ge_items, all_items>> as the handler left them.
Raise(op, mem) ==
  /\ lastOp' = op
  /\ \/ /\ alive' = TRUE
        /\ tracked_items' = mem[1]
        /\ ge_items' = mem[2]
        /\ all_items' = mem[3]
     \/ /\ alive' = FALSE
        /\ tracked_items' = << >>
        /\ ge_items' = EmptyDict
        /\ all_items' = EmptyDict
  /\ UNCHANGED db_items

\* refreshPrices, from the response of its one request on.
refreshPrices(resp) ==
  LET f == fetch_prices(ge_items, resp)
      op(result) == Op("refresh", "", resp, result, f.out)
  IN IF f.raised
     THEN Raise(op("raised"), <<tracked_items, ge_items, all_items>>)
     ELSE LET done == RefreshRows(db_items, tracked_items, f.prices, 1)
          IN /\ db_items' = done[1]
             /\ tracked_items' = done[2]
             /\ lastOp' = op("ok")
             /\ UNCHANGED <<ge_items, all_items, alive>>

\* The bounds of the model: a row and an entry more must fit.
Room == Len(db_items) < MaxRows /\ Len(tracked_items) < MaxList

\* addSelectedItem from fetch_prices on: items is GETracker.items with the
\* new name already in it.
addFetched(item_name, items, resp) ==
  LET f == fetch_prices(items, resp)
      op(result, out) == Op("add", item_name, resp, result, f.out \cup out)
  IN IF f.raised
     THEN Raise(op("raised", {}), <<tracked_items, items, all_items>>)
     ELSE IF item_name \in DOMAIN f.prices
     THEN LET high_price == f.prices[item_name].high
              low_price  == f.prices[item_name].low
          IN /\ Room
             /\ db_items' = InsertOrReplace(db_items,
                   Row(item_name, high_price, low_price, high_price, low_price))
             /\ tracked_items' = addItemToList(tracked_items, item_name,
                   high_price, low_price, high_price, low_price)
             /\ ge_items' = items
             /\ lastOp' = op("ok", {})
             /\ UNCHANGED <<all_items, alive>>
     ELSE /\ ge_items' = items
          /\ lastOp' = op("no_data", {<<"no_price_data", item_name>>})
          /\ UNCHANGED <<db_items, tracked_items, all_items, alive>>

\* addSelectedItem when all_items has no identifier for the name.
addNotFound(item_name) ==
  /\ lastOp' = Op("add", item_name, NoResponse, "not_found",
                  {<<"not_found", item_name>>})
  /\ UNCHANGED <<db_items, tracked_items, ge_items, all_items, alive>>

\* addSelectedItem with a slip: no "if item_id:" around the body.
addSelectedItemUnchecked(item_name, resp) ==
  addFetched(item_name,
             DictSet(ge_items, item_name, DictGet(all_items, item_name)), resp)

addSelectedItem(item_name, resp) ==
  LET item_id == DictGet(all_items, item_name)
  IN IF item_id # None
     THEN addFetched(item_name, DictSet(ge_items, item_name, item_id), resp)
     ELSE addNotFound(item_name)

\* removeSelectedItem: cur is the row of currentItem(), 0 when there is none.
removeSelectedItem(cur) ==
  IF cur # 0
  THEN LET item_name == tracked_items[cur].name
       IN /\ db_items' = DeleteByName(db_items, item_name)
          /\ tracked_items' = TakeItem(tracked_items, cur)
          /\ ge_items' = IF item_name \in DOMAIN ge_items
                         THEN DictDel(ge_items, item_name) ELSE ge_items
          /\ lastOp' = Op("remove", item_name, NoResponse, "ok", {})
          /\ UNCHANGED <<all_items, alive>>
  ELSE /\ lastOp' = Op("remove", "", NoResponse, "none", {})
       /\ UNCHANGED <<db_items, tracked_items, ge_items, all_items, alive>>

\* OSRSPriceTracker.__init__ on the table a former run left: loadItems, then
\* fetch_all_items.  An exception in loadItems ends the process before the
\* window is shown.
startup(mresps) ==
  LET l == loadItems(db_items, mresps)
  IN /\ IF l.raised
        THEN /\ alive' = FALSE
             /\ tracked_items' = << >>
             /\ ge_items' = EmptyDict
             /\ all_items' = EmptyDict
             /\ lastOp' = Op("startup", "", NoResponse, "raised", {})
        ELSE /\ alive' = TRUE
             /\ tracked_items' = l.list
             /\ ge_items' = l.items
             /\ \E aresp \in MappingResponses :
                  all_items' = fetch_all_items(aresp)
             /\ lastOp' = Op("startup", "", NoResponse, "ok", {})
     /\ UNCHANGED db_items

\* ---- the specification: every handler runs as one step ----

Init ==
  /\ db_items = << >>
  /\ tracked_items = << >>
  /\ ge_items = EmptyDict
  /\ all_items \in {fetch_all_items(r) : r \in MappingResponses}
  /\ alive = TRUE
  /\ running = << >>
  /\ lastOp = [op |-> "startup", name |-> "", resp |-> NoResponse,
               result |-> "ok", out |-> {}, repeat |-> FALSE]

\* The responses a call of fetch_prices can see: none without items.
ResponsesFor(items) ==
  IF DOMAIN items = {} THEN {NoResponse} ELSE LatestResponses

\* The GUI thread is in the event loop, inside of no handler.
Idle == alive /\ running = << >>

Refresh ==
  /\ Idle
  /\ \E resp \in ResponsesFor(ge_items) : refreshPrices(resp)
  /\ UNCHANGED running

AddItem ==
  /\ Idle
  /\ \E item_name \in InputNames :
       \E resp \in (IF DictGet(all_items, item_name) # None
                    THEN LatestResponses ELSE {NoResponse}) :
          addSelectedItem(item_name, resp)
  /\ UNCHANGED running

RemoveItem ==
  /\ Idle
  /\ \E cur \in 0..Len(tracked_items) : removeSelectedItem(cur)
  /\ UNCHANGED running

\* The program is started: on a dead process, or after the window was closed.
Startup ==
  /\ running = << >>
  /\ \E mresps \in [1..Len(db_items) -> MappingResponses] : startup(mresps)
  /\ UNCHANGED running

Next == Refresh \/ AddItem \/ RemoveItem \/ Startup

Spec == Init /\ [][Next]_vars

\* ---- one run of the process, with the requests taking time ----
\* A handler that sends a request stays on the GUI thread's stack until the
\* response is there; the event loop delivers the next event (a timeout of
\* the QTimer, a click) only when the GUI thread is back in it.

Frame(h, name) == [h |-> h, name |-> name]

\* Frame k has returned (every frame is gone with the process).
Return(k) ==
  running' = IF alive' THEN TakeItem(running, k) ELSE << >>

\* refreshPrices is entered: without items fetch_prices sends nothing and the
\* handler is through at once.
EnterRefresh ==
  IF DOMAIN ge_items = {}
  THEN refreshPrices(NoResponse) /\ UNCHANGED running
  ELSE /\ running' = Append(running, Frame("refresh", ""))
       /\ UNCHANGED <<db_items, tracked_items, ge_items, all_items, alive, lastOp>>

\* TimerTimeout with a slip: the timer calls refreshPrices from a thread of
\* its own, whatever the GUI thread is in.
TimerTimeoutOffThread == alive /\ Len(running) < 2 /\ EnterRefresh

\* timer.timeout -> refreshPrices, delivered by the event loop.
TimerTimeout == Idle /\ EnterRefresh

\* refresh_button.clicked -> refreshPrices.
RefreshClicked == Idle /\ EnterRefresh

\* The response of a refreshPrices in flight arrives and the handler runs to
\* its end.
RefreshReturns ==
  \E k \in 1..Len(running) :
    /\ running[k].h = "refresh"
    /\ \E resp \in LatestResponses : refreshPrices(resp)
    /\ Return(k)

\* search_input.activated -> onItemSelected -> addSelectedItem, up to its
\* request.
ItemSelected ==
  /\ Idle
  /\ \E item_name \in InputNames :
       LET item_id == DictGet(all_items, item_name)
       IN IF item_id # None
          THEN /\ ge_items' = DictSet(ge_items, item_name, item_id)
               /\ running' = Append(running, Frame("add", item_name))
               /\ UNCHANGED <<db_items, tracked_items, all_items, alive, lastOp>>
          ELSE addNotFound(item_name) /\ UNCHANGED running

\* The response of an addSelectedItem in flight arrives.
AddReturns ==
  \E k \in 1..Len(running) :
    /\ running[k].h = "add"
    /\ \E resp \in LatestResponses :
         addFetched(running[k].name, ge_items, resp)
    /\ Return(k)

\* remove_button.clicked -> removeSelectedItem, which sends no request.
RemoveClicked == RemoveItem

NextLoop ==
  \/ TimerTimeout
  \/ RefreshClicked
  \/ RefreshReturns
  \/ ItemSelected
  \/ AddReturns
  \/ RemoveClicked

SpecLoop == Init /\ [][NextLoop]_vars

\* ---- the claims ----

\* The names with a row in the table.
RowNames(rows) == {rows[i].name : i \in 1..Len(rows)}

\* The response holds prices for the identifier that items has for name n.
Present(items, resp, n) ==
  /\ n \in DOMAIN items
  /\ resp.kind = "ok"
  /\ Str(items[n]) \in DOMAIN resp.data

\* The prices the response holds for name n.
NewPrice(items, resp, n) == resp.data[Str(items[n])]

\* The first list entry of name n, 0 when there is none.
FirstEntry(list, n) ==
  LET hits == {j \in 1..Len(list) : list[j].name = n}
  IN IF hits = {} THEN 0 ELSE Min(hits)

\* C1: a refresh that completes gives every row whose item is in the fetched
\* snapshot the snapshot's high/low, and the list reports for that row the
\* change from the high/low the row held before the refresh.
C1_RefreshReportsDelta ==
  [][(lastOp'.op = "refresh" /\ lastOp'.result = "ok") =>
       /\ Len(db_items') = Len(db_items)
       /\ \A i \in 1..Len(db_items) :
            Present(ge_items, lastOp'.resp, db_items[i].name) =>
              LET r == db_items[i]
                  p == NewPrice(ge_items, lastOp'.resp, r.name)
              IN /\ db_items'[i].high_price = p.high
                 /\ db_items'[i].low_price = p.low
                 /\ \E j \in 1..Len(tracked_items') :
                      /\ tracked_items'[j].name = r.name
                      /\ tracked_items'[j].high = p.high
                      /\ tracked_items'[j].low = p.low
                      /\ tracked_items'[j].high_change = p.high - r.high_price
                      /\ tracked_items'[j].low_change = p.low - r.low_price
    ]_vars

\* C2: an add whose name is in all_items and whose identifier has prices in
\* the snapshot succeeds: the row it persists holds the fetched high/low as
\* current and as last prices, and the entry it appends reports changes 0.
C2_AddSeedsBaseline ==
  [][(lastOp'.op = "add" /\ Present(all_items, lastOp'.resp, lastOp'.name)) =>
       LET n == lastOp'.name
           p == NewPrice(all_items, lastOp'.resp, n)
           row == db_items'[Len(db_items')]
           entry == tracked_items'[Len(tracked_items')]
       IN /\ lastOp'.result = "ok"
          /\ Len(db_items') = Len(db_items) + 1
          /\ Len(tracked_items') = Len(tracked_items) + 1
          /\ row = Row(n, p.high, p.low, p.high, p.low)
          /\ entry.name = n
          /\ entry.high = p.high /\ entry.low = p.low
          /\ entry.high_change = 0 /\ entry.low_change = 0
    ]_vars

C2_Witness ==
  /\ lastOp.op = "add" /\ lastOp.result = "ok"
  /\ Present(all_items, lastOp.resp, lastOp.name)
  /\ NewPrice(all_items, lastOp.resp, lastOp.name).high > 1
  /\ db_items[Len(db_items)].last_high_price > 1
  /\ tracked_items[Len(tracked_items)].high_change = 0

C4_NamesUnique ==
  /\ \A i, j \in 1..Len(db_items) :
       i # j => db_items[i].name # db_items[j].name
  /\ \A i, j \in 1..Len(tracked_items) :
       i # j => tracked_items[i].name # tracked_items[j].name

\* An identifier a name resolution gave for name n.
ResolvedId(n, id) ==
  /\ id # None
  /\ \E i \in 1..Len(Catalog) :
       Catalog[i].id = id /\ Lower(Catalog[i].name) = Lower(n)

\* C5: an add of a name all_items does not hold ends not-found and leaves
\* the table, the list and GETracker.items as they were; and every identifier
\* GETracker.items holds is one the catalog gives for its name.
C5_NotFoundLeavesSet ==
  /\ [](\A n \in DOMAIN ge_items : ResolvedId(n, ge_items[n]))
  /\ [][(lastOp'.op = "add" /\ lastOp'.name \notin DOMAIN all_items) =>
          /\ lastOp'.result = "not_found"
          /\ db_items' = db_items
          /\ tracked_items' = tracked_items
          /\ ge_items' = ge_items
       ]_vars

C5_Witness ==
  /\ lastOp.op = "add" /\ lastOp.result = "not_found"
  /\ lastOp.name = "Whip"
  /\ all_items = EmptyDict
  /\ Len(db_items) > 0 /\ DOMAIN ge_items # {}

\* C6: a handler whose request fails (a status other than 200, or a network
\* error) raises nothing, keeps the process running and leaves every row of
\* the table as it was.
C6_FailureIsNoData ==
  [][(lastOp'.resp.kind \in {"http", "neterr"} \/ lastOp'.result = "raised") =>
       /\ lastOp'.result # "raised"
       /\ alive'
       /\ db_items' = db_items
    ]_vars

\* Two refreshes in a row that completed on the same snapshot.
SameSnapshotAgain ==
  /\ lastOp.op = "refresh" /\ lastOp.result = "ok"
  /\ lastOp'.op = "refresh" /\ lastOp'.result = "ok"
  /\ lastOp.resp.kind = "ok"
  /\ lastOp'.resp = lastOp.resp

\* C7 as claimed: the second of two refreshes on the same snapshot leaves
\* every row of the table exactly as the first left it, and every entry of
\* the list reports changes 0.
C7_SecondRefreshChangesNothing ==
  [][SameSnapshotAgain =>
       /\ db_items' = db_items
       /\ \A j \in 1..Len(tracked_items') :
            /\ tracked_items'[j].high_change = 0
            /\ tracked_items'[j].low_change = 0
    ]_vars

\* C7 as amended: the second of two refreshes on the same snapshot leaves a
\* row whose item is not in the snapshot as it was; a row whose item is in
\* the snapshot keeps its high/low, its last high/low are overwritten with
\* them, and the entry rewritten for its name reports changes 0.
C7_SecondRefreshKeepsBaseline ==
  [][SameSnapshotAgain =>
       /\ Len(db_items') = Len(db_items)
       /\ \A i \in 1..Len(db_items) :
            LET r == db_items[i]
                e == FirstEntry(tracked_items', r.name)
            IN IF Present(ge_items, lastOp'.resp, r.name)
               THEN /\ db_items'[i] = Row(r.name, r.high_price, r.low_price,
                                          r.high_price, r.low_price)
                    /\ e # 0 => /\ tracked_items'[e].high_change = 0
                                /\ tracked_items'[e].low_change = 0
               ELSE db_items'[i] = r
    ]_vars

C7_Witness ==
  /\ lastOp.op = "refresh" /\ lastOp.result = "ok" /\ lastOp.repeat
  /\ \E i \in 1..Len(db_items) :
       /\ Present(ge_items, lastOp.resp, db_items[i].name)
       /\ db_items[i].high_price > 1
       /\ db_items[i].last_high_price = db_items[i].high_price
       /\ FirstEntry(tracked_items, db_items[i].name) # 0

\* C8: a remove with a current entry leaves no row, no entry and no
\* GETracker.items key of that entry's name and leaves the rows and entries
\* of every other name as they were; a remove without one changes nothing;
\* neither raises.
C8_RemoveDeletesItem ==
  [][(lastOp'.op = "remove") =>
       LET n == lastOp'.name
           others(seq) == SelectSeq(seq, LAMBDA x : x.name # n)
       IN /\ alive'
          /\ IF lastOp'.result = "ok"
             THEN /\ n \notin RowNames(db_items')
                  /\ n \notin RowNames(tracked_items')
                  /\ n \notin DOMAIN ge_items'
                  /\ others(db_items') = others(db_items)
                  /\ others(tracked_items') = others(tracked_items)
             ELSE /\ db_items' = db_items
                  /\ tracked_items' = tracked_items
                  /\ ge_items' = ge_items
    ]_vars

\* GETracker.items holds exactly the names that have a row in the table.
CopiesAgree == DOMAIN ge_items = RowNames(db_items)

\* C10: the two copies agree after startup, and every startup, add, refresh
\* and remove that ends without raising leaves them agreeing.
C10_CopiesAgree ==
  /\ [](lastOp.op = "startup" /\ lastOp.result = "ok" => CopiesAgree)
  /\ [][(lastOp'.result # "raised" /\ CopiesAgree) => CopiesAgree']_vars

\* A refreshPrices is in flight.
InRefresh == \E k \in 1..Len(running) : running[k].h = "refresh"

\* C9: at most one handler is in flight at any time, and from a state with a
\* refreshPrices in flight the only step is that refresh running to its end:
\* no second refresh starts, by the timer or by the button, and no add or
\* remove runs in between.
C9_RefreshesNeverOverlap ==
  /\ [](Len(running) <= 1)
  /\ [][InRefresh =>
          /\ lastOp'.op = "refresh"
          /\ ~InRefresh'
          /\ running' = << >>
       ]_vars

C9_Witness ==
  /\ InRefresh
  /\ Len(db_items) > 1
  /\ lastOp.op = "refresh" /\ lastOp.result = "ok"

====
